---- MODULE Spec2Model ----
(***************************************************************************)
(* Model of examples/fast-bot-metrics/classic-pipeline.py: the settings    *)
(* record and its validation, the __main__ block, the objects main()       *)
(* builds, and the three event handlers main() registers.                  *)
(*                                                                         *)
(* Two specifications share the variables.  SpecStartup runs the __main__  *)
(* block from the command line to runner.run.  Spec starts in the state    *)
(* main() has built and runs the event handlers.  A handler is a coroutine: *)
(* one action runs it from its call to its await (or to its end), another  *)
(* resumes it with what the awaited call did, and other handlers and the   *)
(* pipeline stages may run in between.                                     *)
(***************************************************************************)
EXTENDS Naturals, Sequences, FiniteSets

VARIABLES
    pc,          \* position in the __main__ block
    argv,        \* the text given to -s/--settings, as parsed JSON (or its absence)
    environ,     \* os.environ after load_dotenv
    settings,    \* the BotSettings instance, NotBuilt before validation
    built,       \* what main() constructed: transport, stt, tts, llm, pipeline, task
    runnerRan,   \* runner.run(task) was called
    printed,     \* the ValidationError was printed
    heap,        \* list objects by reference; heap[MessagesRef] is `messages`
    queueRequests, \* frames handed to task.queue_frame / queue_frames, in call order
    taskQueue,   \* frames the PipelineTask has queued, in order
    sent,        \* frames handed to transport.output().send_message, in order
    inflight,    \* frames travelling through the pipeline
    delivered,   \* frames the transport output stage has sent, in order
    pending,     \* handler invocations suspended at their await
    history,     \* per invocation, in order of its call: handler and status
    calls,       \* number of event-handler invocations so far
    joins,       \* number of on_first_participant_joined invocations
    lefts,       \* number of on_participant_left invocations
    lastCall     \* the invocation that ran last, and what it has done so far

vars == <<pc, argv, environ, settings, built, runnerRan, printed,
          heap, queueRequests, taskQueue, sent, inflight, delivered, pending,
          history, calls, joins, lefts, lastCall>>

startupVars == <<pc, argv, environ, settings, built, runnerRan, printed>>
handlerVars == <<heap, queueRequests, taskQueue, sent, inflight, delivered, pending,
                 history, calls, joins, lefts, lastCall>>

(***************************************************************************)
(* Bounds of the model.                                                    *)
(***************************************************************************)
\* optional settings keys (and unknown keys) one command line supplies
MaxSupplied == 1
\* environment variables that are set
MaxEnvSet == 1
\* events in one run: event-handler invocations and messages the response
\* aggregators complete
MaxEvents == 2

(***************************************************************************)
(* Values.  A Python value is a tagged record; JSON values carry their own *)
(* tags, so that validation has a conversion to perform.                   *)
(***************************************************************************)
None == [t |-> "None", v |-> ""]
Str(s) == [t |-> "str", v |-> s]

JAbsent == [t |-> "absent", v |-> ""]
JNull == [t |-> "null", v |-> ""]
JStr(s) == [t |-> "string", v |-> s]
JNum(s) == [t |-> "number", v |-> s]

NotBuilt == [t |-> "NotBuilt", v |-> ""]
NotPassed == [t |-> "NotPassed", v |-> ""]

(***************************************************************************)
(* class BotSettings(BaseModel)                                            *)
(***************************************************************************)
RequiredFields == {"room_url", "room_token"}
OptionalFields == {"prompt", "deepgram_api_key", "deepgram_voice", "deepgram_base_url",
                   "openai_api_key", "openai_model", "openai_base_url"}
DefaultedStrFields == {"bot_name"}
Fields == RequiredFields \cup DefaultedStrFields \cup OptionalFields

DefaultPrompt == "You are a helpful LLM in a WebRTC call. Your goal is to demonstrate your capabilities in a succinct way. Respond to what the user said in a creative and helpful way in a few short sentences."

FieldDefault(f) ==
    CASE f = "bot_name" -> Str("Pipecat")
      [] f = "prompt" -> Str(DefaultPrompt)
      [] f = "deepgram_api_key" -> None
      [] f = "deepgram_voice" -> Str("aura-asteria-en")
      [] f = "deepgram_base_url" -> Str("https://api.deepgram.com/v1/speak")
      [] f = "openai_api_key" -> None
      [] f = "openai_model" -> Str("gpt-4o")
      [] f = "openai_base_url" -> None

\* Whether JSON value j is accepted for field f: `str` takes a JSON string,
\* Optional[str] a JSON string or null; a field with a default may be absent.
FieldAccepts(f, j) ==
    \/ j.t = "string"
    \/ j.t = "null" /\ f \in OptionalFields
    \/ j.t = "absent" /\ f \notin RequiredFields

\* A variant that treats a supplied null like an omitted key.
FieldValueNullAsOmitted(f, j) ==
    CASE j.t = "string" -> Str(j.v)
      [] OTHER -> FieldDefault(f)

\* The value field f takes from JSON value j.
FieldValue(f, j) ==
    CASE j.t = "string" -> Str(j.v)
      [] j.t = "null" -> None
      [] OTHER -> FieldDefault(f)

\* A variant that builds the record without validating it (model_construct).
ModelValidateJsonUnchecked(raw) ==
    [ok |-> TRUE,
     value |-> [f \in Fields |-> IF raw.obj[f].t = "string" THEN Str(raw.obj[f].v) ELSE None]]

\* BotSettings.model_validate_json(text): keys that are no field are ignored.
ModelValidateJson(raw) ==
    IF raw.kind = "object" /\ \A f \in Fields : FieldAccepts(f, raw.obj[f])
    THEN [ok |-> TRUE, value |-> [f \in Fields |-> FieldValue(f, raw.obj[f])]]
    ELSE [ok |-> FALSE, value |-> NotBuilt]

(***************************************************************************)
(* Command lines and environments the model draws from.                    *)
(***************************************************************************)
Keys == Fields \cup {"extra"}
SuppliableKeys == Keys \ RequiredFields

RequiredJson == {JAbsent, JNull, JStr("https://example.daily.co/room"), JNum("7")}
SuppliedJson == {JNull, JStr("supplied"), JNum("7")}

JsonObjects ==
    UNION { { [k \in Keys |-> IF k \in RequiredFields THEN r[k]
                              ELSE IF k \in S THEN o[k] ELSE JAbsent]
              : r \in [RequiredFields -> RequiredJson], o \in [S -> SuppliedJson] }
            : S \in {T \in SUBSET SuppliableKeys : Cardinality(T) <= MaxSupplied} }

NoObject == [k \in Keys |-> JAbsent]

\* "missing": no -s option; "invalid": text that is not JSON; "array": JSON
\* that is no object; "object": a JSON object.
CommandLines ==
    { [kind |-> "object", obj |-> o] : o \in JsonObjects }
    \cup { [kind |-> k, obj |-> NoObject] : k \in {"missing", "invalid", "array"} }

EnvVars == {"DEEPGRAM_API_KEY", "DEEPGRAM_STT_URL", "DEEPGRAM_TTS_BASE_URL",
            "OPENAI_API_KEY", "OPENAI_MODEL", "OPENAI_BASE_URL"}
EnvSetValues == {Str(""), Str("from-env")}

Environments ==
    UNION { { [n \in EnvVars |-> IF n \in S THEN e[n] ELSE None]
              : e \in [S -> EnvSetValues] }
            : S \in {T \in SUBSET EnvVars : Cardinality(T) <= MaxEnvSet} }

(***************************************************************************)
(* main(settings): the objects it constructs.                              *)
(***************************************************************************)
Getenv(env, name) == env[name]

\* Python truth of an os.getenv result: None and "" are false.
Truthy(x) == x.t = "str" /\ x.v # ""

\* **({'url': url} if (url := os.getenv(NAME)) else {})
OptionalKwarg(env, name) == IF Truthy(Getenv(env, name)) THEN Getenv(env, name) ELSE NotPassed

DailyTransport(s) ==
    [room_url |-> s["room_url"], room_token |-> s["room_token"], bot_name |-> s["bot_name"],
     audio_out_enabled |-> TRUE, transcription_enabled |-> FALSE,
     vad_enabled |-> TRUE, vad_stop_secs |-> "0.200", vad_audio_passthrough |-> TRUE]

DeepgramSTTService(env) ==
    [api_key |-> Getenv(env, "DEEPGRAM_API_KEY"), url |-> OptionalKwarg(env, "DEEPGRAM_STT_URL")]

ClearableDeepgramTTSService(env) ==
    [name |-> "Voice", api_key |-> Getenv(env, "DEEPGRAM_API_KEY"),
     voice |-> Str("aura-asteria-en"),
     base_url |-> OptionalKwarg(env, "DEEPGRAM_TTS_BASE_URL")]

OpenAILLMService(env) ==
    [name |-> "LLM", api_key |-> Getenv(env, "OPENAI_API_KEY"),
     model |-> Getenv(env, "OPENAI_MODEL"), base_url |-> Getenv(env, "OPENAI_BASE_URL")]

SystemPrompt == "You are a helpful assistant in an audio conversation.\n\nYour goal is to demonstrate your capabilities in a succinct way. Your output will be converted to audio so don't include special characters in your answers.\n\nRespond to what the user said in a creative and helpful way. Be concise in your answers to basic questions. If you are asked to elaborate or tell a story, provide a longer response.\n"
InitialMessages == << [role |-> "system", content |-> SystemPrompt] >>

\* The reference of the one list main() creates; both aggregators, the
\* introduction handler and every LLMMessagesFrame hold this reference.
MessagesRef == 1

Pipeline == << "transport.input", "avt", "stt", "tl", "tma_in",
               "llm", "tts", "transport.output", "tma_out" >>

PipelineParams ==
    [allow_interruptions |-> TRUE, enable_metrics |-> TRUE, report_only_initial_ttfb |-> TRUE]

\* A plausible slip: the transcript seeded from settings.prompt and the voice
\* from settings.deepgram_voice instead of the hard-coded values.
MainBuildFromSettings(s, env) ==
    [transport |-> DailyTransport(s),
     stt |-> DeepgramSTTService(env),
     tts |-> [ClearableDeepgramTTSService(env) EXCEPT !.voice = s["deepgram_voice"]],
     llm |-> OpenAILLMService(env),
     messages |-> << [role |-> "system", content |-> s["prompt"].v] >>,
     tma_in |-> MessagesRef, tma_out |-> MessagesRef,
     pipeline |-> Pipeline, task |-> PipelineParams]

\* Everything main() constructs before runner.run.
MainBuild(s, env) ==
    [transport |-> DailyTransport(s),
     stt |-> DeepgramSTTService(env),
     tts |-> ClearableDeepgramTTSService(env),
     llm |-> OpenAILLMService(env),
     messages |-> InitialMessages,
     tma_in |-> MessagesRef, tma_out |-> MessagesRef,
     pipeline |-> Pipeline, task |-> PipelineParams]

(***************************************************************************)
(* The __main__ block.                                                     *)
(***************************************************************************)
\* phase: "suspended" at the await, "returned", or "escaped" (an exception
\* left the handler).  sendOutcome and awaitOutcome are "skipped" for a call
\* the handler did not reach; awaitOutcome is "pending" while suspended.
NoCall == [id |-> 0, handler |-> "none", message |-> None, sender |-> "",
           phase |-> "none", effects |-> << >>,
           sendOutcome |-> "skipped", awaitOutcome |-> "skipped",
           raised |-> "none", escaped |-> "none", logged |-> FALSE]

HandlerInit ==
    /\ heap = << >>
    /\ queueRequests = << >>
    /\ taskQueue = << >>
    /\ sent = << >>
    /\ inflight = [i \in 1..Len(Pipeline) |-> << >>]
    /\ delivered = << >>
    /\ pending = {}
    /\ history = << >>
    /\ calls = 0
    /\ joins = 0
    /\ lefts = 0
    /\ lastCall = NoCall

InitStartup ==
    /\ pc = "start"
    /\ argv \in CommandLines
    /\ environ \in Environments
    /\ settings = NotBuilt
    /\ built = NotBuilt
    /\ runnerRan = FALSE
    /\ printed = FALSE
    /\ HandlerInit

\* parser.parse_known_args(): -s is required, argparse exits without it.
ParseArgs ==
    /\ pc = "start"
    /\ pc' = IF argv.kind = "missing" THEN "argparse_exit" ELSE "validate"
    /\ UNCHANGED <<argv, environ, settings, built, runnerRan, printed, handlerVars>>

\* settings = BotSettings.model_validate_json(args.settings), inside the try.
ValidateSettings ==
    /\ pc = "validate"
    /\ LET r == ModelValidateJson(argv)
       IN /\ settings' = r.value
          /\ pc' = IF r.ok THEN "main" ELSE "except"
    /\ UNCHANGED <<argv, environ, built, runnerRan, printed, handlerVars>>

\* except ValidationError as e: print(e)
ExceptValidationError ==
    /\ pc = "except"
    /\ printed' = TRUE
    /\ pc' = "exit"
    /\ UNCHANGED <<argv, environ, settings, built, runnerRan, handlerVars>>

\* asyncio.run(main(settings)) up to and including the call of runner.run.
Main ==
    /\ pc = "main"
    /\ built' = MainBuild(settings, environ)
    /\ heap' = << MainBuild(settings, environ).messages >>
    /\ runnerRan' = TRUE
    /\ pc' = "running"
    /\ UNCHANGED <<argv, environ, settings, printed,
                   queueRequests, taskQueue, sent, inflight, delivered, pending, history,
                   calls, joins, lefts, lastCall>>

NextStartup == ParseArgs \/ ValidateSettings \/ ExceptValidationError \/ Main

SpecStartup == InitStartup /\ [][NextStartup]_vars

(***************************************************************************)
(* Frames and the values event handlers receive.                           *)
(***************************************************************************)
EndFrame == [type |-> "EndFrame"]
LLMMessagesFrame(ref) == [type |-> "LLMMessagesFrame", messages |-> ref]

\* DailyTransportMessageFrame(message={key: {"ts": ts}}, participant_id=pid)
DailyTransportMessageFrame(key, ts, pid) ==
    [type |-> "DailyTransportMessageFrame",
     message |-> [key |-> key, ts |-> ts], participant_id |-> pid]

PingKey == "latency-ping"
PongHandlerKey == "latency-pong-msg-handler"
PongPipelineKey == "latency-pong-pipeline-delivery"

IntroductionMessage == [role |-> "system", content |-> "Please introduce yourself to the user."]

Participants == {"alice", "bob"}
LeaveReasons == {"leftCall", "hidden"}

Int(s) == [t |-> "int", v |-> s]
Timestamps == {Int("1715000000002"), None}

\* A decoded app message.  A dict has the key set `items` and, under
\* "latency-ping", the value `ping`; a list has the element set `items`; a
\* str has the token sequence `text`.  The value under "latency-ping" is
\* again a dict (with key set `items` and, under "ts", the value `ts`) or a
\* value that is no mapping.
NoPing == [t |-> "None", items |-> {}, ts |-> None]
PingValues ==
    { [t |-> "dict", items |-> {"ts"}, ts |-> x] : x \in Timestamps }
    \cup { [t |-> "dict", items |-> {}, ts |-> None],
           [t |-> "int", items |-> {}, ts |-> None],
           NoPing }

AppMessages ==
    { [t |-> "dict", items |-> {PingKey}, ping |-> p, text |-> << >>] : p \in PingValues }
    \cup { [t |-> "dict", items |-> {}, ping |-> NoPing, text |-> << >>],
           [t |-> "dict", items |-> {"other"}, ping |-> NoPing, text |-> << >>],
           [t |-> "list", items |-> {PingKey}, ping |-> NoPing, text |-> << >>],
           [t |-> "str", items |-> {}, ping |-> NoPing, text |-> << "a", PingKey >>],
           [t |-> "int", items |-> {}, ping |-> NoPing, text |-> << >>],
           [t |-> "None", items |-> {}, ping |-> NoPing, text |-> << >>] }

\* What a call into the framework may do.  send_message is a plain call: it
\* returns or raises.  task.queue_frame, task.queue_frames and
\* tma_in.push_frame are awaited: the call returns, raises, or the handler's
\* task is cancelled while it waits.
SendOutcomes == {"ok", "Exception"}
AwaitOutcomes == {"ok", "Exception", "CancelledError"}

\* Exception classes that derive from Exception; asyncio.CancelledError
\* derives from BaseException only.
ExceptionSubclasses == {"Exception", "KeyError", "TypeError"}

(***************************************************************************)
(* Python operations on decoded values.  Each returns the exception it     *)
(* raises ("none" when it returns) and its value.                          *)
(***************************************************************************)
\* key in m
Contains(key, m) ==
    CASE m.t = "dict" -> [raised |-> "none", value |-> key \in m.items]
      [] m.t = "list" -> [raised |-> "none", value |-> key \in m.items]
      [] m.t = "str" -> [raised |-> "none",
                         value |-> \E i \in 1..Len(m.text) : m.text[i] = key]
      [] OTHER -> [raised |-> "TypeError", value |-> FALSE]

\* message["latency-ping"]
GetPing(m) ==
    IF m.t = "dict"
    THEN IF PingKey \in m.items THEN [raised |-> "none", value |-> m.ping]
         ELSE [raised |-> "KeyError", value |-> NoPing]
    ELSE [raised |-> "TypeError", value |-> NoPing]

\* value["ts"]
GetTs(p) ==
    IF p.t = "dict"
    THEN IF "ts" \in p.items THEN [raised |-> "none", value |-> p.ts]
         ELSE [raised |-> "KeyError", value |-> None]
    ELSE [raised |-> "TypeError", value |-> None]

(***************************************************************************)
(* The pipeline as the handlers use it.                                    *)
(***************************************************************************)
StageIndex(name) == CHOOSE i \in 1..Len(Pipeline) : Pipeline[i] = name

\* processor.push_frame(frame) hands the frame to the processor that follows
\* `processor` in the pipeline.
PushFrameTarget(processor) == StageIndex(processor) + 1

\* await tma_in.push_frame(...): the stage the pipeline pong enters at.
PongEntryStage == PushFrameTarget("tma_in")

Enter(fl, stage, frame) ==
    [fl EXCEPT ![stage] = Append(@, [frame |-> frame, entered |-> stage, path |-> << >>])]

\* The frames of one kind of effect, in order.
RECURSIVE FramesOf(_, _)
FramesOf(op, effects) ==
    IF effects = << >> THEN << >>
    ELSE IF Head(effects).op = op
         THEN << Head(effects).frame >> \o FramesOf(op, Tail(effects))
         ELSE FramesOf(op, Tail(effects))

(***************************************************************************)
(* Invocations.                                                            *)
(***************************************************************************)
\* A handler suspended at its await; `frame` is the argument of the awaited
\* call.
Suspended(id, handler, message, sender, effects, sendOutcome, frame) ==
    [id |-> id, handler |-> handler, message |-> message, sender |-> sender,
     effects |-> effects, sendOutcome |-> sendOutcome, frame |-> frame]

CallRecord(p, phase, effects, awaitOutcome, raised, escaped, logged) ==
    [id |-> p.id, handler |-> p.handler, message |-> p.message, sender |-> p.sender,
     phase |-> phase, effects |-> effects,
     sendOutcome |-> p.sendOutcome, awaitOutcome |-> awaitOutcome,
     raised |-> raised, escaped |-> escaped, logged |-> logged]

\* The handler reached its await and is suspended there.
Suspend(p) ==
    /\ pending' = pending \cup {p}
    /\ history' = Append(history, [handler |-> p.handler, status |-> "suspended"])
    /\ lastCall' = CallRecord(p, "suspended", p.effects, "pending", "none", "none", FALSE)

\* The suspended handler p ended: it returned, or `escaped` left it.
Finish(p, effects, awaitOutcome, raised, escaped, logged) ==
    /\ pending' = pending \ {p}
    /\ history' = [history EXCEPT ![p.id].status =
                       IF escaped = "none" THEN "returned" ELSE "escaped"]
    /\ lastCall' = CallRecord(p, IF escaped = "none" THEN "returned" ELSE "escaped",
                              effects, awaitOutcome, raised, escaped, logged)

(***************************************************************************)
(* What the PipelineTask does with an awaited queue_frame / queue_frames.  *)
(* The handler sees the call return, raise, or its own task cancelled      *)
(* while it waits.  A call that returns has queued its frame; for a call   *)
(* that does not return, the frame may or may not have been queued.        *)
(***************************************************************************)
QueueOutcomes ==
    {o \in [outcome : AwaitOutcomes, queued : BOOLEAN] : o.outcome = "ok" => o.queued}

QueueFrame(q, frame, o) == IF o.queued THEN Append(q, frame) ELSE q

\* The transcript entries the response aggregators appended: the handlers
\* and main() write entries of role "system" only.
Aggregated(transcript) ==
    {i \in 1..Len(transcript) : transcript[i].role # "system"}

\* The events so far.
Events == calls + Cardinality(Aggregated(heap[MessagesRef]))

(***************************************************************************)
(* on_participant_left                                                     *)
(***************************************************************************)
\* A variant that asks for termination only once.
ParticipantLeftQueueOnce(q) ==
    IF \E i \in 1..Len(q) : q[i] = EndFrame THEN q ELSE Append(q, EndFrame)

\* task.queue_frame(EndFrame()): the request the handler makes of the task
ParticipantLeftQueue(q) == Append(q, EndFrame)

\* The call of the handler: it calls task.queue_frame(EndFrame()) and is
\* suspended at the await of that call.
OnParticipantLeft ==
    /\ pc = "running"
    /\ Events < MaxEvents
    /\ queueRequests' = ParticipantLeftQueue(queueRequests)
    /\ \E participant \in Participants, reason \in LeaveReasons :
          Suspend(Suspended(calls + 1, "on_participant_left", None, participant,
                            << >>, "skipped", EndFrame))
    /\ calls' = calls + 1
    /\ lefts' = lefts + 1
    /\ UNCHANGED <<startupVars, heap, taskQueue, sent, inflight, delivered, joins>>

\* The awaited queue_frame ends; the handler has no try, so whatever is
\* raised leaves it.
OnParticipantLeftResume ==
    /\ pc = "running"
    /\ \E p \in pending, o \in QueueOutcomes :
          /\ p.handler = "on_participant_left"
          /\ taskQueue' = QueueFrame(taskQueue, p.frame, o)
          /\ Finish(p,
                    IF o.queued THEN << [op |-> "queue_frame", frame |-> p.frame] >>
                    ELSE << >>,
                    o.outcome,
                    IF o.outcome = "ok" THEN "none" ELSE o.outcome,
                    IF o.outcome = "ok" THEN "none" ELSE o.outcome, FALSE)
    /\ UNCHANGED <<startupVars, heap, queueRequests, sent, inflight, delivered,
                   calls, joins, lefts>>

(***************************************************************************)
(* on_first_participant_joined                                             *)
(***************************************************************************)
\* A variant that hands the frame a copy of the list, LLMMessagesFrame(list(messages)).
FirstParticipantJoinedCopy(h) ==
    [heap |-> Append([h EXCEPT ![MessagesRef] = Append(@, IntroductionMessage)],
                     Append(h[MessagesRef], IntroductionMessage)),
     frame |-> LLMMessagesFrame(Len(h) + 1)]

\* messages.append({...}) and the argument of queue_frames, LLMMessagesFrame(messages)
FirstParticipantJoined(h) ==
    [heap |-> [h EXCEPT ![MessagesRef] = Append(@, IntroductionMessage)],
     frame |-> LLMMessagesFrame(MessagesRef)]

\* The call of the handler: it appends to messages, calls
\* task.queue_frames([LLMMessagesFrame(messages)]) and is suspended at the
\* await of that call.
OnFirstParticipantJoined ==
    /\ pc = "running"
    /\ Events < MaxEvents
    /\ heap' = FirstParticipantJoined(heap).heap
    /\ queueRequests' = Append(queueRequests, FirstParticipantJoined(heap).frame)
    /\ \E participant \in Participants :
          Suspend(Suspended(calls + 1, "on_first_participant_joined", None, participant,
                            << >>, "skipped", FirstParticipantJoined(heap).frame))
    /\ calls' = calls + 1
    /\ joins' = joins + 1
    /\ UNCHANGED <<startupVars, taskQueue, sent, inflight, delivered, lefts>>

\* The awaited queue_frames ends; no try here either.
OnFirstParticipantJoinedResume ==
    /\ pc = "running"
    /\ \E p \in pending, o \in QueueOutcomes :
          /\ p.handler = "on_first_participant_joined"
          /\ taskQueue' = QueueFrame(taskQueue, p.frame, o)
          /\ Finish(p,
                    IF o.queued THEN << [op |-> "queue_frames", frame |-> p.frame] >>
                    ELSE << >>,
                    o.outcome,
                    IF o.outcome = "ok" THEN "none" ELSE o.outcome,
                    IF o.outcome = "ok" THEN "none" ELSE o.outcome, FALSE)
    /\ UNCHANGED <<startupVars, heap, queueRequests, sent, inflight, delivered,
                   calls, joins, lefts>>

(***************************************************************************)
(* on_app_message                                                          *)
(***************************************************************************)
\* What the try body did before its await: its effects, the exception that
\* ended it, and, when it reached the await, the frame it pushes.
BodyResult(effects, raised, sendOutcome, awaiting, frame) ==
    [effects |-> effects, raised |-> raised, sendOutcome |-> sendOutcome,
     awaiting |-> awaiting, frame |-> frame]

\* A variant whose two replies use the same key.
OnAppMessageBodySameKey(message, sender, sendOut) ==
    LET c == Contains(PingKey, message)
        g == GetPing(message)
        ts == GetTs(g.value)
        immediate == [op |-> "send_message",
                      frame |-> DailyTransportMessageFrame(PongHandlerKey, ts.value, sender)]
        queued == DailyTransportMessageFrame(PongHandlerKey, ts.value, sender)
    IN  IF c.raised # "none" THEN BodyResult(<< >>, c.raised, "skipped", FALSE, EndFrame)
        ELSE IF ~c.value THEN BodyResult(<< >>, "none", "skipped", FALSE, EndFrame)
        ELSE IF g.raised # "none" THEN BodyResult(<< >>, g.raised, "skipped", FALSE, EndFrame)
        ELSE IF ts.raised # "none" THEN BodyResult(<< >>, ts.raised, "skipped", FALSE, EndFrame)
        ELSE IF sendOut # "ok" THEN BodyResult(<< >>, sendOut, sendOut, FALSE, EndFrame)
        ELSE BodyResult(<< immediate >>, "none", "ok", TRUE, queued)

\* A variant without the membership test, reading the timestamp with
\* message.get("latency-ping", {}).get("ts").
OnAppMessageBodyGetDefault(message, sender, sendOut) ==
    LET g == IF message.t = "dict" /\ PingKey \notin message.items
             THEN [raised |-> "none", value |-> [t |-> "dict", items |-> {}, ts |-> None]]
             ELSE GetPing(message)
        ts == IF g.value.t = "dict" /\ "ts" \notin g.value.items
              THEN [raised |-> "none", value |-> None]
              ELSE GetTs(g.value)
        immediate == [op |-> "send_message",
                      frame |-> DailyTransportMessageFrame(PongHandlerKey, ts.value, sender)]
        queued == DailyTransportMessageFrame(PongPipelineKey, ts.value, sender)
    IN  IF g.raised # "none" THEN BodyResult(<< >>, g.raised, "skipped", FALSE, EndFrame)
        ELSE IF ts.raised # "none" THEN BodyResult(<< >>, ts.raised, "skipped", FALSE, EndFrame)
        ELSE IF sendOut # "ok" THEN BodyResult(<< >>, sendOut, sendOut, FALSE, EndFrame)
        ELSE BodyResult(<< immediate >>, "none", "ok", TRUE, queued)

\* A variant that guards the send on its own, so that a failing send does
\* not keep the handler from pushing.
OnAppMessageBodySendGuarded(message, sender, sendOut) ==
    LET c == Contains(PingKey, message)
        g == GetPing(message)
        ts == GetTs(g.value)
        immediate == [op |-> "send_message",
                      frame |-> DailyTransportMessageFrame(PongHandlerKey, ts.value, sender)]
        queued == DailyTransportMessageFrame(PongPipelineKey, ts.value, sender)
    IN  IF c.raised # "none" THEN BodyResult(<< >>, c.raised, "skipped", FALSE, EndFrame)
        ELSE IF ~c.value THEN BodyResult(<< >>, "none", "skipped", FALSE, EndFrame)
        ELSE IF g.raised # "none" THEN BodyResult(<< >>, g.raised, "skipped", FALSE, EndFrame)
        ELSE IF ts.raised # "none" THEN BodyResult(<< >>, ts.raised, "skipped", FALSE, EndFrame)
        ELSE IF sendOut # "ok" THEN BodyResult(<< >>, "none", sendOut, TRUE, queued)
        ELSE BodyResult(<< immediate >>, "none", "ok", TRUE, queued)

\* The body of the try from the membership test to `await tma_in.push_frame`.
OnAppMessageBody(message, sender, sendOut) ==
    LET c == Contains(PingKey, message)
        g == GetPing(message)
        ts == GetTs(g.value)
        immediate == [op |-> "send_message",
                      frame |-> DailyTransportMessageFrame(PongHandlerKey, ts.value, sender)]
        queued == DailyTransportMessageFrame(PongPipelineKey, ts.value, sender)
    IN  IF c.raised # "none" THEN BodyResult(<< >>, c.raised, "skipped", FALSE, EndFrame)
        ELSE IF ~c.value THEN BodyResult(<< >>, "none", "skipped", FALSE, EndFrame)
        ELSE IF g.raised # "none" THEN BodyResult(<< >>, g.raised, "skipped", FALSE, EndFrame)
        ELSE IF ts.raised # "none" THEN BodyResult(<< >>, ts.raised, "skipped", FALSE, EndFrame)
        ELSE IF sendOut # "ok" THEN BodyResult(<< >>, sendOut, sendOut, FALSE, EndFrame)
        ELSE BodyResult(<< immediate >>, "none", "ok", TRUE, queued)

\* A variant that guards against a missing key only: except KeyError as e.
ExceptClauseCatchesKeyErrorOnly(exc) == exc = "KeyError"

\* except Exception as e
ExceptClauseCatches(exc) == exc \in ExceptionSubclasses

\* The call of the handler, up to the await or, when the body ends before
\* it, to the handler's end.
OnAppMessage ==
    /\ pc = "running"
    /\ Events < MaxEvents
    /\ \E message \in AppMessages, sender \in Participants, sendOut \in SendOutcomes :
          LET r == OnAppMessageBody(message, sender, sendOut)
              caught == r.raised # "none" /\ ExceptClauseCatches(r.raised)
              escaped == IF caught THEN "none" ELSE r.raised
              p == Suspended(calls + 1, "on_app_message", message, sender,
                             r.effects, r.sendOutcome, r.frame)
          IN  /\ sent' = sent \o FramesOf("send_message", r.effects)
              /\ IF r.awaiting
                 THEN Suspend(p)
                 ELSE /\ pending' = pending
                      /\ history' = Append(history,
                             [handler |-> "on_app_message",
                              status |-> IF escaped = "none" THEN "returned" ELSE "escaped"])
                      /\ lastCall' = CallRecord(p,
                             IF escaped = "none" THEN "returned" ELSE "escaped",
                             r.effects, "skipped", r.raised, escaped, caught)
    /\ calls' = calls + 1
    /\ UNCHANGED <<startupVars, heap, queueRequests, taskQueue, inflight, delivered,
                   joins, lefts>>

\* The awaited push_frame completes, raises or is cancelled, inside the try.
OnAppMessageResume ==
    /\ pc = "running"
    /\ \E p \in pending, outcome \in AwaitOutcomes :
          /\ p.handler = "on_app_message"
          /\ LET raised == IF outcome = "ok" THEN "none" ELSE outcome
                 caught == raised # "none" /\ ExceptClauseCatches(raised)
             IN  /\ inflight' = IF outcome = "ok"
                                THEN Enter(inflight, PongEntryStage, p.frame)
                                ELSE inflight
                 /\ Finish(p,
                           IF outcome = "ok"
                           THEN Append(p.effects, [op |-> "push_frame", frame |-> p.frame])
                           ELSE p.effects,
                           outcome, raised, IF caught THEN "none" ELSE raised, caught)
    /\ UNCHANGED <<startupVars, heap, queueRequests, taskQueue, sent, delivered,
                   calls, joins, lefts>>

(***************************************************************************)
(* A pipeline stage handling the frame at the head of its input.  The      *)
(* frames that travel here are the pongs; a stage passes them on as they   *)
(* are.                                                                    *)
(***************************************************************************)
ProcessFrame ==
    /\ pc = "running"
    /\ \E i \in 1..Len(Pipeline) :
          /\ inflight[i] # << >>
          /\ LET item == [Head(inflight[i]) EXCEPT !.path = Append(@, Pipeline[i])]
                 popped == [inflight EXCEPT ![i] = Tail(@)]
             IN  /\ inflight' = IF i < Len(Pipeline)
                                THEN [popped EXCEPT ![i + 1] = Append(@, item)]
                                ELSE popped
                 /\ delivered' = IF Pipeline[i] = "transport.output"
                                    /\ item.frame.type = "DailyTransportMessageFrame"
                                 THEN Append(delivered, item)
                                 ELSE delivered
    /\ UNCHANGED <<startupVars, heap, queueRequests, taskQueue, sent, pending, history,
                   calls, joins, lefts, lastCall>>

(***************************************************************************)
(* The response aggregators.  tma_in and tma_out are built on the list     *)
(* `messages` itself: when one of them completes a message it appends the  *)
(* message to that list.                                                   *)
(***************************************************************************)
Aggregators == {"tma_in", "tma_out"}

\* LLMUserResponseAggregator records what the user said,
\* LLMAssistantResponseAggregator what the bot said.
AggregatedMessage(stage) ==
    [role |-> IF stage = "tma_in" THEN "user" ELSE "assistant", content |-> "utterance"]

AggregateResponse ==
    /\ pc = "running"
    /\ Events < MaxEvents
    /\ \E stage \in Aggregators :
          heap' = [heap EXCEPT ![MessagesRef] = Append(@, AggregatedMessage(stage))]
    /\ UNCHANGED <<startupVars, queueRequests, taskQueue, sent, inflight, delivered,
                   pending, history, calls, joins, lefts, lastCall>>

(***************************************************************************)
(* The running bot: the state main() has built, then events.               *)
(***************************************************************************)
RunningCommandLine ==
    [kind |-> "object",
     obj |-> [k \in Keys |-> IF k \in RequiredFields
                             THEN JStr("https://example.daily.co/room") ELSE JAbsent]]

Init ==
    /\ pc = "running"
    /\ argv = RunningCommandLine
    /\ environ = [n \in EnvVars |-> None]
    /\ settings = ModelValidateJson(argv).value
    /\ built = MainBuild(settings, environ)
    /\ runnerRan = TRUE
    /\ printed = FALSE
    /\ heap = << MainBuild(settings, environ).messages >>
    /\ queueRequests = << >>
    /\ taskQueue = << >>
    /\ sent = << >>
    /\ inflight = [i \in 1..Len(Pipeline) |-> << >>]
    /\ delivered = << >>
    /\ pending = {}
    /\ history = << >>
    /\ calls = 0
    /\ joins = 0
    /\ lefts = 0
    /\ lastCall = NoCall

Next ==
    \/ OnParticipantLeft
    \/ OnParticipantLeftResume
    \/ OnFirstParticipantJoined
    \/ OnFirstParticipantJoinedResume
    \/ OnAppMessage
    \/ OnAppMessageResume
    \/ ProcessFrame
    \/ AggregateResponse

Spec == Init /\ [][Next]_vars

(***************************************************************************)
(* Vocabulary of the properties.                                           *)
(***************************************************************************)
\* The message is a mapping with the key "latency-ping".
HasPingKey(m) == m.t = "dict" /\ PingKey \in m.items

\* ... and the value under it is a mapping with a "ts" entry.
CarriesTimestamp(m) == HasPingKey(m) /\ m.ping.t = "dict" /\ "ts" \in m.ping.items

\* The step runs handler h: its call, or its resumption after the await.
HandlerStep(h) == lastCall' # lastCall /\ lastCall'.handler = h

\* The step is the call of a handler; otherwise it resumes one.
IsCall == calls' = calls + 1 /\ lastCall'.id = calls'

\* The invocations of handler h that have the given status.
Invocations(h, status) ==
    {i \in 1..Len(history) : history[i].handler = h /\ history[i].status = status}


ImmediatePong(ts, who) ==
    [type |-> "DailyTransportMessageFrame",
     message |-> [key |-> "latency-pong-msg-handler", ts |-> ts], participant_id |-> who]

PipelinePong(ts, who) ==
    [type |-> "DailyTransportMessageFrame",
     message |-> [key |-> "latency-pong-pipeline-delivery", ts |-> ts], participant_id |-> who]

\* How many frames of one type a queue holds.
RECURSIVE CountType(_, _)
CountType(q, type) ==
    IF q = << >> THEN 0
    ELSE (IF Head(q).type = type THEN 1 ELSE 0) + CountType(Tail(q), type)

PushedInto(fl, fl2, frame) ==
    \E i \in 1..Len(Pipeline) :
        /\ Len(fl2[i]) = Len(fl[i]) + 1
        /\ SubSeq(fl2[i], 1, Len(fl[i])) = fl[i]
        /\ fl2[i][Len(fl2[i])].frame = frame
        /\ \A j \in 1..Len(Pipeline) : j # i => fl2[j] = fl[j]

(***************************************************************************)
(* C1: an app message whose "latency-ping" value carries timestamp T, with *)
(* neither send failing, produces exactly two replies: the frame           *)
(* {"latency-pong-msg-handler": {"ts": T}} through send_message, before    *)
(* the await, and the frame {"latency-pong-pipeline-delivery": {"ts": T}}  *)
(* pushed into the pipeline when the awaited push completes, both with T   *)
(* unchanged and both addressed to the sender; and the handler sends,      *)
(* pushes or queues nothing else.                                          *)
(***************************************************************************)
C1_PingProducesTwoReplies ==
    [][ ( /\ HandlerStep("on_app_message")
          /\ CarriesTimestamp(lastCall'.message)
          /\ lastCall'.sendOutcome # "Exception"
          /\ lastCall'.awaitOutcome \notin {"Exception", "CancelledError"} )
        => LET T == lastCall'.message.ping.ts
               who == lastCall'.sender
               first == [op |-> "send_message", frame |-> ImmediatePong(T, who)]
               second == [op |-> "push_frame", frame |-> PipelinePong(T, who)]
           IN  /\ ImmediatePong(T, who).message.key # PipelinePong(T, who).message.key
               /\ taskQueue' = taskQueue
               /\ queueRequests' = queueRequests
               /\ delivered' = delivered
               /\ heap' = heap
               /\ lastCall'.escaped = "none"
               /\ IF IsCall
                  THEN /\ lastCall'.phase = "suspended"
                       /\ sent' = Append(sent, ImmediatePong(T, who))
                       /\ inflight' = inflight
                       /\ lastCall'.effects = << first >>
                  ELSE /\ lastCall'.phase = "returned"
                       /\ lastCall'.awaitOutcome = "ok"
                       /\ sent' = sent
                       /\ PushedInto(inflight, inflight', PipelinePong(T, who))
                       /\ lastCall'.effects = << first, second >> ]_vars

C1_Witness ==
    /\ lastCall.handler = "on_app_message"
    /\ CarriesTimestamp(lastCall.message)
    /\ lastCall.message.ping.ts = Int("1715000000002")
    /\ lastCall.sendOutcome = "ok" /\ lastCall.awaitOutcome = "ok"
    /\ lastCall.phase = "returned"
    /\ Len(sent) = 1
    /\ Len(inflight[PongEntryStage]) = 1

(***************************************************************************)
(* C2: an app message without the key "latency-ping" produces no reply     *)
(* (no immediate send, no pipeline push): the handler returns at once,     *)
(* without reaching the await, and no exception escapes.                   *)
(***************************************************************************)
C2_NoKeyNoReply ==
    [][ (HandlerStep("on_app_message") /\ ~HasPingKey(lastCall'.message))
        => /\ IsCall
           /\ lastCall'.phase = "returned"
           /\ sent' = sent
           /\ inflight' = inflight
           /\ taskQueue' = taskQueue
           /\ queueRequests' = queueRequests
           /\ pending' = pending
           /\ lastCall'.effects = << >>
           /\ lastCall'.escaped = "none" ]_vars

C2_Witness ==
    /\ lastCall.handler = "on_app_message"
    /\ lastCall.message.t = "dict"
    /\ lastCall.message.items = {"other"}
    /\ lastCall.phase = "returned"
    /\ calls = 2
    /\ sent = << >>

(***************************************************************************)
(* C3: settings JSON that violates the BotSettings schema ends in the      *)
(* validation-error path: the error is printed, main() is never entered,   *)
(* nothing is constructed and runner.run is never called.                  *)
(***************************************************************************)
ViolatesSchema(raw) ==
    \/ raw.kind \in {"invalid", "array"}
    \/ /\ raw.kind = "object"
       /\ \/ raw.obj["room_url"].t # "string"
          \/ raw.obj["room_token"].t # "string"
          \/ raw.obj["bot_name"].t \notin {"string", "absent"}
          \/ \E f \in Fields \ {"room_url", "room_token", "bot_name"} :
                raw.obj[f].t \notin {"string", "null", "absent"}

C3_InvalidSettingsNeverRun ==
    ViolatesSchema(argv)
    => /\ pc \in {"start", "validate", "except", "exit"}
       /\ settings = NotBuilt
       /\ built = NotBuilt
       /\ heap = << >>
       /\ ~runnerRan
       /\ (pc = "exit" <=> printed)

C3_Witness ==
    /\ argv.kind = "object"
    /\ argv.obj["room_url"].t = "absent"
    /\ argv.obj["room_token"].t = "string"
    /\ pc = "exit"
    /\ printed

(***************************************************************************)
(* C4: every on_participant_left event, whoever left and for whatever     *)
(* reason, makes exactly one request task.queue_frame(EndFrame()) of the   *)
(* pipeline task, at the call of its handler and whether or not earlier    *)
(* requests exist: after k events k termination requests have been made.   *)
(* The task queues the EndFrame of a request at most once, and has queued  *)
(* it for every handler that returned.  The handler sends no reply, pushes *)
(* nothing and does not modify the transcript.                             *)
(***************************************************************************)
C4_EveryLeaveRequestsOneEndFrame ==
    /\ [](/\ CountType(queueRequests, "EndFrame") = lefts
          /\ Cardinality(Invocations("on_participant_left", "returned"))
                <= CountType(taskQueue, "EndFrame")
          /\ CountType(taskQueue, "EndFrame")
                <= lefts - Cardinality({p \in pending : p.handler = "on_participant_left"}))
    /\ [][ HandlerStep("on_participant_left")
           => /\ sent' = sent
              /\ inflight' = inflight
              /\ delivered' = delivered
              /\ heap' = heap
              /\ IF IsCall
                 THEN /\ lefts' = lefts + 1
                      /\ queueRequests' = Append(queueRequests, [type |-> "EndFrame"])
                      /\ taskQueue' = taskQueue
                 ELSE /\ lefts' = lefts
                      /\ queueRequests' = queueRequests
                      /\ \/ taskQueue' = taskQueue
                         \/ taskQueue' = Append(taskQueue, [type |-> "EndFrame"])
                      /\ lastCall'.phase = "returned"
                         => taskQueue' = Append(taskQueue, [type |-> "EndFrame"]) ]_vars

C4_Witness ==
    /\ lefts = 2
    /\ lastCall.handler = "on_participant_left"
    /\ lastCall.phase = "returned"
    /\ pending = {}
    /\ queueRequests = << [type |-> "EndFrame"], [type |-> "EndFrame"] >>
    /\ taskQueue = << [type |-> "EndFrame"], [type |-> "EndFrame"] >>

(***************************************************************************)
(* C5: settings JSON that gives room_url and room_token as strings and     *)
(* otherwise matches the schema parses; every omitted optional field takes *)
(* its declared default and every supplied field keeps the supplied value. *)
(***************************************************************************)
DeclaredDefaults ==
    [bot_name |-> Str("Pipecat"),
     prompt |-> Str("You are a helpful LLM in a WebRTC call. Your goal is to demonstrate your capabilities in a succinct way. Respond to what the user said in a creative and helpful way in a few short sentences."),
     deepgram_api_key |-> None,
     deepgram_voice |-> Str("aura-asteria-en"),
     deepgram_base_url |-> Str("https://api.deepgram.com/v1/speak"),
     openai_api_key |-> None,
     openai_model |-> Str("gpt-4o"),
     openai_base_url |-> None]

MatchesSchema(raw) ==
    /\ raw.kind = "object"
    /\ raw.obj["room_url"].t = "string"
    /\ raw.obj["room_token"].t = "string"
    /\ raw.obj["bot_name"].t \in {"string", "absent"}
    /\ \A f \in Fields \ {"room_url", "room_token", "bot_name"} :
          raw.obj[f].t \in {"string", "null", "absent"}

C5_ValidSettingsParseWithDefaults ==
    (MatchesSchema(argv) /\ pc \notin {"start", "validate"})
    => /\ pc \in {"main", "running"}
       /\ ~printed
       /\ DOMAIN settings = Fields
       /\ \A f \in Fields :
             CASE argv.obj[f].t = "absent" -> settings[f] = DeclaredDefaults[f]
               [] argv.obj[f].t = "string" -> settings[f] = [t |-> "str", v |-> argv.obj[f].v]
               [] argv.obj[f].t = "null" -> settings[f] = None

C5_Witness ==
    /\ pc = "main"
    /\ argv.obj["openai_base_url"].t = "string"
    /\ settings["openai_base_url"] = Str("supplied")
    /\ settings["openai_model"] = Str("gpt-4o")
    /\ settings["bot_name"] = Str("Pipecat")

(***************************************************************************)
(* C6, as stated: whatever the message and whatever the immediate send or  *)
(* the pipeline push raises, on_app_message returns normally and no        *)
(* exception propagates to its caller.                                     *)
(***************************************************************************)
C6_NoExceptionEverEscapes ==
    lastCall.handler = "on_app_message" => lastCall.escaped = "none"

(***************************************************************************)
(* C6, amended: on_app_message logs and discards every exception that      *)
(* derives from Exception (a "latency-ping" value without "ts" or that is  *)
(* no mapping, a message that does not support the membership test, a      *)
(* failing send or push); the only exception that propagates is one that   *)
(* derives from BaseException alone, the cancellation delivered while the  *)
(* pipeline push is awaited.                                               *)
(***************************************************************************)
C6_ExceptionsLoggedAndDiscarded ==
    lastCall.handler = "on_app_message"
    => /\ lastCall.raised \in {"Exception", "KeyError", "TypeError"}
          => (lastCall.escaped = "none" /\ lastCall.logged)
       /\ lastCall.raised = "none" => (lastCall.escaped = "none" /\ ~lastCall.logged)
       /\ lastCall.escaped # "none"
          => /\ lastCall.escaped = "CancelledError"
             /\ lastCall.awaitOutcome = "CancelledError"
             /\ ~lastCall.logged
       /\ lastCall.awaitOutcome = "Exception" => (lastCall.phase = "returned" /\ lastCall.logged)
       /\ lastCall.sendOutcome = "Exception" => (lastCall.phase = "returned" /\ lastCall.logged)
       /\ (lastCall.message.t \in {"int", "None"}) => lastCall.raised = "TypeError"
       /\ (HasPingKey(lastCall.message) /\ ~CarriesTimestamp(lastCall.message))
          => lastCall.raised \in {"KeyError", "TypeError"}

C6_Witness ==
    /\ lastCall.handler = "on_app_message"
    /\ HasPingKey(lastCall.message)
    /\ lastCall.message.ping.t = "dict"
    /\ lastCall.message.ping.items = {}
    /\ lastCall.raised = "KeyError"
    /\ lastCall.logged
    /\ lastCall.escaped = "none"

(***************************************************************************)
(* C7, as stated: each on_first_participant_joined event appends one       *)
(* introduction instruction to the transcript and asks the task to queue   *)
(* one LLMMessagesFrame, so that after n events the transcript is the      *)
(* system prompt followed by n introduction instructions, of length 1 + n, *)
(* and n frames have been requested.                                       *)
(***************************************************************************)
Introduction == [role |-> "system", content |-> "Please introduce yourself to the user."]

C7_TranscriptIsPromptPlusIntroductions ==
    /\ Len(heap[MessagesRef]) = 1 + joins
    /\ \A i \in 2..Len(heap[MessagesRef]) : heap[MessagesRef][i] = Introduction
    /\ CountType(queueRequests, "LLMMessagesFrame") = joins

(***************************************************************************)
(* C7, amended: each on_first_participant_joined event appends exactly one *)
(* introduction instruction to the end of the shared transcript and makes  *)
(* exactly one request task.queue_frames([LLMMessagesFrame(messages)])     *)
(* carrying that same list; the task queues the frame of a request at most *)
(* once, and has queued it for every handler that returned.  The handler   *)
(* is not idempotent: after n events the transcript holds the system       *)
(* prompt at index 0 and n introduction instructions, and n frames have    *)
(* been requested.  Its length is 1 + n plus the number of messages the    *)
(* response aggregators, which share the list, have appended (1 + n, the   *)
(* prompt followed by the n instructions, while they have appended none).  *)
(* No handler removes or reorders a transcript entry.                      *)
(***************************************************************************)
C7_TranscriptInvariant ==
    LET transcript == heap[MessagesRef]
        others == {i \in 1..Len(transcript) : transcript[i].role \in {"user", "assistant"}}
    IN  /\ transcript[1] = built.messages[1]
        /\ transcript[1].role = "system"
        /\ transcript[1] # Introduction
        /\ Cardinality({i \in 1..Len(transcript) : transcript[i] = Introduction}) = joins
        /\ Len(transcript) = 1 + joins + Cardinality(others)
        /\ others = {} => \A i \in 2..(1 + joins) : transcript[i] = Introduction
        /\ Len(heap) = 1
        /\ CountType(queueRequests, "LLMMessagesFrame") = joins
        /\ \A i \in 1..Len(queueRequests) :
              queueRequests[i].type = "LLMMessagesFrame"
              => queueRequests[i].messages = MessagesRef
        /\ Cardinality(Invocations("on_first_participant_joined", "returned"))
              <= CountType(taskQueue, "LLMMessagesFrame")
        /\ CountType(taskQueue, "LLMMessagesFrame")
              <= joins - Cardinality({p \in pending :
                                        p.handler = "on_first_participant_joined"})
        /\ \A i \in 1..Len(taskQueue) :
              taskQueue[i].type = "LLMMessagesFrame"
              => taskQueue[i].messages = MessagesRef

C7_IntroductionAppendedEachTime ==
    /\ []C7_TranscriptInvariant
    /\ [][ /\ Len(heap'[MessagesRef]) >= Len(heap[MessagesRef])
           /\ SubSeq(heap'[MessagesRef], 1, Len(heap[MessagesRef])) = heap[MessagesRef]
           /\ (\E h \in {"on_participant_left", "on_app_message"} : HandlerStep(h))
              => heap' = heap
           /\ joins' # joins
              => /\ joins' = joins + 1
                 /\ HandlerStep("on_first_participant_joined") /\ IsCall
                 /\ heap'[MessagesRef] = Append(heap[MessagesRef], Introduction)
                 /\ queueRequests'
                       = Append(queueRequests,
                                [type |-> "LLMMessagesFrame", messages |-> MessagesRef])
                 /\ taskQueue' = taskQueue
           /\ (HandlerStep("on_first_participant_joined") /\ ~IsCall)
              => /\ heap' = heap
                 /\ joins' = joins
                 /\ queueRequests' = queueRequests
                 /\ \/ taskQueue' = taskQueue
                    \/ taskQueue' = Append(taskQueue, [type |-> "LLMMessagesFrame",
                                                       messages |-> MessagesRef])
                 /\ lastCall'.phase = "returned"
                    => taskQueue' = Append(taskQueue, [type |-> "LLMMessagesFrame",
                                                       messages |-> MessagesRef]) ]_vars

C7_Witness ==
    /\ joins = 1
    /\ pending = {}
    /\ lastCall.handler = "on_first_participant_joined"
    /\ lastCall.phase = "returned"
    /\ Len(heap[MessagesRef]) = 3
    /\ heap[MessagesRef][2].role = "user"
    /\ heap[MessagesRef][3] = Introduction
    /\ queueRequests = << [type |-> "LLMMessagesFrame", messages |-> MessagesRef] >>
    /\ taskQueue = queueRequests

(***************************************************************************)
(* C8, as stated: the pong delivered through the pipeline enters at the    *)
(* first stage and passes transport input, AudioVolumeTimer, STT,          *)
(* TranscriptionTimingLogger, user aggregator, LLM and TTS, in that order, *)
(* before the transport output sends it.                                   *)
(***************************************************************************)
C8_PongTraversesWholePipeline ==
    \A i \in 1..Len(delivered) :
        /\ delivered[i].entered = 1
        /\ delivered[i].path = << "transport.input", "avt", "stt", "tl", "tma_in",
                                  "llm", "tts", "transport.output" >>

(***************************************************************************)
(* C9: within one handling of a ping the immediate reply is handed to the  *)
(* transport output before the pipeline reply is pushed: the send happens  *)
(* before the await and the push at its completion.  If the send raises,   *)
(* the handler ends there, nothing is pushed and there is no reply; if the *)
(* send succeeds and the push raises or is cancelled, the immediate reply  *)
(* alone was produced and stays sent.                                      *)
(***************************************************************************)
C9_ImmediateBeforePipeline ==
    [][ /\ Len(sent') >= Len(sent)
        /\ SubSeq(sent', 1, Len(sent)) = sent
        /\ (HandlerStep("on_app_message") /\ CarriesTimestamp(lastCall'.message))
           => LET T == lastCall'.message.ping.ts
                  who == lastCall'.sender
                  e == lastCall'.effects
              IN  /\ \A i \in 1..Len(e) :
                        e[i].op = "push_frame" => (i > 1 /\ e[i - 1].op = "send_message")
                  /\ lastCall'.sendOutcome # "skipped"
                  /\ lastCall'.sendOutcome = "Exception"
                     => /\ IsCall
                        /\ lastCall'.phase = "returned"
                        /\ sent' = sent /\ inflight' = inflight /\ pending' = pending
                        /\ e = << >>
                  /\ lastCall'.phase = "suspended"
                     => /\ lastCall'.sendOutcome = "ok"
                        /\ sent' = Append(sent, ImmediatePong(T, who))
                        /\ inflight' = inflight
                  /\ lastCall'.awaitOutcome = "ok"
                     => /\ \E i \in 1..Len(sent) : sent[i] = ImmediatePong(T, who)
                        /\ sent' = sent
                  /\ lastCall'.awaitOutcome \in {"Exception", "CancelledError"}
                     => /\ lastCall'.sendOutcome = "ok"
                        /\ sent' = sent
                        /\ \E i \in 1..Len(sent) : sent[i] = ImmediatePong(T, who)
                        /\ inflight' = inflight
                        /\ e = << [op |-> "send_message", frame |-> ImmediatePong(T, who)] >> ]_vars

C9_Witness ==
    /\ lastCall.handler = "on_app_message"
    /\ CarriesTimestamp(lastCall.message)
    /\ lastCall.sendOutcome = "ok"
    /\ lastCall.awaitOutcome = "Exception"
    /\ Len(sent) = 1
    /\ \A i \in 1..Len(Pipeline) : inflight[i] = << >>
    /\ delivered = << >>

(***************************************************************************)
(* C10: of the settings only room_url, room_token and bot_name influence   *)
(* what main() builds.  Under the same environment, settings that differ   *)
(* in the other seven fields give the same services, transcript and        *)
(* pipeline: credentials, model and endpoints come from the environment,   *)
(* and an endpoint override reaches the STT/TTS constructor only when its  *)
(* variable is set and non-empty.                                          *)
(***************************************************************************)
OtherSettingValues == {None, Str("another value")}

C10_OnlyRoomAndNameInfluenceBuild ==
    pc = "running"
    => /\ \A others \in [OptionalFields -> OtherSettingValues] :
             MainBuild([f \in Fields |-> IF f \in OptionalFields THEN others[f]
                                         ELSE settings[f]], environ) = built
       /\ built.transport.room_url = settings["room_url"]
       /\ built.transport.room_token = settings["room_token"]
       /\ built.transport.bot_name = settings["bot_name"]
       /\ built.stt.api_key = environ["DEEPGRAM_API_KEY"]
       /\ built.tts.api_key = environ["DEEPGRAM_API_KEY"]
       /\ built.llm.api_key = environ["OPENAI_API_KEY"]
       /\ built.llm.model = environ["OPENAI_MODEL"]
       /\ built.llm.base_url = environ["OPENAI_BASE_URL"]
       /\ built.stt.url = (IF environ["DEEPGRAM_STT_URL"] \in {None, Str("")}
                           THEN NotPassed ELSE environ["DEEPGRAM_STT_URL"])
       /\ built.tts.base_url = (IF environ["DEEPGRAM_TTS_BASE_URL"] \in {None, Str("")}
                                THEN NotPassed ELSE environ["DEEPGRAM_TTS_BASE_URL"])
       /\ heap = << built.messages >>
       /\ built.messages = << [role |-> "system", content |-> SystemPrompt] >>

C10_Witness ==
    /\ pc = "running"
    /\ settings["deepgram_voice"] = Str("supplied")
    /\ built.tts.voice = Str("aura-asteria-en")

====
